---- MODULE Spec2Model ----
(***************************************************************************)
(* A model of hlcfan/webmock (src/webmock.go): the route registry of a     *)
(* MockServer, the functional options that build a route, the cassette     *)
(* loader and the request handler ServeHTTP.                               *)
(*                                                                         *)
(* A Go string is a sequence of one-character strings, so that the code's  *)
(* parsing (url.Parse, strings.Split, strings.TrimSpace, strings.ToUpper,  *)
(* header-name canonicalisation) is computed and not assumed.  A Go        *)
(* map[string]string is a function from keys to values.                    *)
(***************************************************************************)
EXTENDS Naturals, Integers, Sequences, FiniteSets, TLC

VARIABLES
    routes,   \* MockServer.routes as the test thread sees it (a sequence of routes)
    proc,     \* "running", or how the process ended: log.Fatal ("fatal"), a panic
    req,      \* the request of the client's current exchange, or NoReq
    w,        \* the calls ServeHTTP made on that exchange's http.ResponseWriter
    calls,    \* the registrations made since New() or the last Reset()
    didReset, \* whether Reset() has been called
    hdr,      \* SpecRace: the slice header of MockServer.routes, word by word
    heap,     \* SpecRace: the backing arrays, by address
    mut,      \* SpecRace: the test threads that call Stub / Reset / LoadCassette;
              \* SpecStep: the test thread inside LoadCassette
    hnd,      \* SpecRace, SpecStep: the handler goroutine
    held,     \* SpecRace: the registry contents held since the handler started
    ops,      \* SpecRace, SpecStep: mutator calls started so far
    oroute,   \* SpecOpt, SpecHdr: the route under construction in Stub
    oargs,    \* SpecOpt, SpecHdr: the arguments of the Stub call
    oidx,     \* SpecOpt, SpecHdr: how many options have been applied
    opc       \* SpecOpt, SpecHdr: where the Stub call stands

vars == <<routes, proc, req, w, calls, didReset, hdr, heap, mut, hnd, held, ops,
          oroute, oargs, oidx, opc>>

seqVars == <<routes, proc, req, w, calls, didReset>>
raceVars == <<hdr, heap, mut, hnd, held, ops>>
optVars == <<oroute, oargs, oidx, opc>>

(***************************************************************************)
(* Bounds of the model.                                                    *)
(***************************************************************************)
MaxRoutes == 3
MaxOpts == 2
MaxOps == 2

(***************************************************************************)
(* Strings.                                                                *)
(***************************************************************************)
Lowers == <<"a","b","c","d","e","f","g","h","i","j","k","l","m",
            "n","o","p","q","r","s","t","u","v","w","x","y","z">>
Uppers == <<"A","B","C","D","E","F","G","H","I","J","K","L","M",
            "N","O","P","Q","R","S","T","U","V","W","X","Y","Z">>

IsLower(c) == \E i \in DOMAIN Lowers : Lowers[i] = c
IsUpper(c) == \E i \in DOMAIN Uppers : Uppers[i] = c
IsLetter(c) == IsLower(c) \/ IsUpper(c)

UpperChar(c) ==
    IF IsLower(c) THEN Uppers[CHOOSE i \in DOMAIN Lowers : Lowers[i] = c] ELSE c
LowerChar(c) ==
    IF IsUpper(c) THEN Lowers[CHOOSE i \in DOMAIN Uppers : Uppers[i] = c] ELSE c

\* strings.ToUpper
ToUpper(s) == [i \in 1..Len(s) |-> UpperChar(s[i])]

\* strings.Index for a one-character separator: the first position, or 0
Index(s, c) ==
    IF \E i \in 1..Len(s) : s[i] = c
    THEN CHOOSE i \in 1..Len(s) : s[i] = c /\ \A j \in 1..(i - 1) : s[j] # c
    ELSE 0

HasPrefix(s, p) == Len(s) >= Len(p) /\ SubSeq(s, 1, Len(p)) = p

Drop(s, n) == SubSeq(s, n + 1, Len(s))

\* strings.Split(s, sep) for a one-character separator
RECURSIVE Split(_, _)
SplitAt(s, c, i) ==
    IF i = 0 THEN <<s>> ELSE <<SubSeq(s, 1, i - 1)>> \o Split(Drop(s, i), c)

Split(s, c) == SplitAt(s, c, Index(s, c))

IsSpace(c) == c \in {" ", "\t", "\n", "\r"}

\* strings.TrimSpace
RECURSIVE TrimLeft(_)
TrimLeft(s) == IF s # <<>> /\ IsSpace(Head(s)) THEN TrimLeft(Tail(s)) ELSE s
RECURSIVE TrimRight(_)
TrimRight(s) ==
    IF s # <<>> /\ IsSpace(s[Len(s)]) THEN TrimRight(SubSeq(s, 1, Len(s) - 1)) ELSE s
TrimSpace(s) == TrimRight(TrimLeft(s))

\* textproto.CanonicalMIMEHeaderKey, as http.Header.Get applies it to its key:
\* the first letter and every letter after a '-' in upper case, the rest lower.
CanonicalKey(s) ==
    [i \in 1..Len(s) |->
        IF i = 1 \/ s[i - 1] = "-" THEN UpperChar(s[i]) ELSE LowerChar(s[i])]

(***************************************************************************)
(* Maps.                                                                   *)
(***************************************************************************)
EmptyMap == [k \in {} |-> <<>>]
MapSet(m, k, v) == [x \in (DOMAIN m) \cup {k} |-> IF x = k THEN v ELSE m[x]]
MapLen(m) == Cardinality(DOMAIN m)

(***************************************************************************)
(* url.Parse, as Stub and loadCassette call it: the fragment is cut off,   *)
(* the scheme is scanned, the query is cut at the first '?', and an        *)
(* authority follows a leading "//".                                       *)
(***************************************************************************)
SchemeExtra == {"0","1","2","3","4","5","6","7","8","9","+","-","."}

SchemeChar(raw, i) == IsLetter(raw[i]) \/ (i > 1 /\ raw[i] \in SchemeExtra)

\* url.getScheme: where its loop stops, 0 when it runs to the end
SchemeStop(raw) ==
    IF \E i \in 1..Len(raw) : ~SchemeChar(raw, i)
    THEN CHOOSE i \in 1..Len(raw) :
             ~SchemeChar(raw, i) /\ \A j \in 1..(i - 1) : SchemeChar(raw, j)
    ELSE 0

getSchemeAt(raw, stop) ==
    IF stop # 0 /\ raw[stop] = ":"
    THEN IF stop = 1
         THEN [err |-> TRUE, scheme |-> <<>>, rest |-> <<>>]
         ELSE [err |-> FALSE, scheme |-> SubSeq(raw, 1, stop - 1),
               rest |-> Drop(raw, stop)]
    ELSE [err |-> FALSE, scheme |-> <<>>, rest |-> raw]

\* url.getScheme: [err, scheme, rest]
getScheme(raw) == getSchemeAt(raw, SchemeStop(raw))

BadURL == [err |-> TRUE, Host |-> <<>>, Path |-> <<>>, RawQuery |-> <<>>]
GoodURL(host, path, rawq) ==
    [err |-> FALSE, Host |-> host, Path |-> path, RawQuery |-> rawq]

\* strings.Cut(s, c): before and after the first c
CutBefore(s, i) == IF i = 0 THEN s ELSE SubSeq(s, 1, i - 1)
CutAfter(s, i) == IF i = 0 THEN <<>> ELSE Drop(s, i)

\* the authority of "//authority/path"
parseAuthority(auth, i, rawq) ==
    GoodURL(CutBefore(auth, i), IF i = 0 THEN <<>> ELSE Drop(auth, i - 1), rawq)

\* url.parse after the scheme and the query are cut off
parsePath(scheme, rest, rawq) ==
    IF ~HasPrefix(rest, <<"/">>) /\ scheme # <<>>
    THEN GoodURL(<<>>, <<>>, rawq)                       \* an opaque URL
    ELSE IF ~HasPrefix(rest, <<"/">>)
            /\ Index(CutBefore(rest, Index(rest, "/")), ":") # 0
    THEN BadURL                  \* first path segment cannot contain colon
    ELSE IF (scheme # <<>> \/ ~HasPrefix(rest, <<"/","/","/">>))
            /\ HasPrefix(rest, <<"/","/">>)
    THEN parseAuthority(Drop(rest, 2), Index(Drop(rest, 2), "/"), rawq)
    ELSE GoodURL(<<>>, rest, rawq)

\* a single trailing '?' is dropped (ForceQuery); otherwise cut at the first '?'
parseQuery(scheme, rest, q) ==
    parsePath(scheme, CutBefore(rest, q), CutAfter(rest, q))

parseScheme(sch) ==
    IF sch.err THEN BadURL
    ELSE parseQuery(sch.scheme, sch.rest, Index(sch.rest, "?"))

\* url.Parse: [err, Host, Path, RawQuery]
ParseURL(rawURL) == parseScheme(getScheme(CutBefore(rawURL, Index(rawURL, "#"))))

(***************************************************************************)
(* http.StatusText(code) is non-empty exactly for the registered codes.    *)
(***************************************************************************)
KnownStatus ==
    (100..103) \cup (200..208) \cup {226} \cup (300..305) \cup {307, 308}
    \cup (400..418) \cup (421..426) \cup {428, 429, 431, 451}
    \cup (500..508) \cup {510, 511}

HasStatusText(code) == code \in KnownStatus

StatusOK == 200
StatusNotFound == 404

(***************************************************************************)
(* The functional options.                                                 *)
(***************************************************************************)
\* WithHeaders, the part that runs when the option is built (lines 268-274):
\* [panic, headerMap].  pair[1] of a piece without ':' is out of range.
RECURSIVE headerMapOf(_, _)
headerPair(headers, m, pair) ==
    IF Len(pair) < 2 THEN [panic |-> TRUE, headerMap |-> m]
    ELSE headerMapOf(Tail(headers), MapSet(m, TrimSpace(pair[1]), TrimSpace(pair[2])))

headerMapOf(headers, m) ==
    IF headers = <<>> THEN [panic |-> FALSE, headerMap |-> m]
    ELSE headerPair(headers, m, Split(Head(headers), ":"))

WithHeadersMap(headerStr) == headerMapOf(Split(headerStr, ";"), EmptyMap)

\* The closure WithHeaders returns
WithHeaders(headerStr, r) ==
    [r EXCEPT !.requestHeaders = WithHeadersMap(headerStr).headerMap]

WithResponseOverwrite(code, response, headers, r) ==
    [r EXCEPT !.statusCode = IF HasStatusText(code) THEN code ELSE @,
              !.body = response,
              !.responseHeaders = IF MapLen(headers) > 0 THEN headers ELSE @]

\* The closure WithResponse returns
WithResponse(code, response, headers, r) ==
    [r EXCEPT !.statusCode = IF HasStatusText(code) THEN code ELSE @,
              !.body = IF Len(response) > 0 THEN response ELSE @,
              !.responseHeaders = IF MapLen(headers) > 0 THEN headers ELSE @]

\* An option value, as Stub receives it
OptHeaders(headerStr) ==
    [kind |-> "WithHeaders", headerStr |-> headerStr, code |-> 0,
     response |-> <<>>, headers |-> EmptyMap]
OptResponse(code, response, headers) ==
    [kind |-> "WithResponse", headerStr |-> <<>>, code |-> code,
     response |-> response, headers |-> headers]

\* opt(r)
ApplyOption(opt, r) ==
    IF opt.kind = "WithHeaders" THEN WithHeaders(opt.headerStr, r)
    ELSE WithResponse(opt.code, opt.response, opt.headers, r)

\* Building an option panics when WithHeaders meets a piece without ':'
OptionPanics(opt) == opt.kind = "WithHeaders" /\ WithHeadersMap(opt.headerStr).panic

\* Stub lines 121-127: the route before any option
NewRoute(method, u, response) ==
    [domain |-> u.Host, method |-> method, path |-> u.Path, query |-> u.RawQuery,
     requestHeaders |-> EmptyMap, statusCode |-> 0, body |-> response,
     responseHeaders |-> EmptyMap]

\* Stub lines 129-131: for _, opt := range options { opt(r) }
RECURSIVE ApplyOptions(_, _)
ApplyOptions(options, r) ==
    IF options = <<>> THEN r
    ELSE ApplyOptions(Tail(options), ApplyOption(Head(options), r))

\* The route a Stub call registers
StubRoute(c) == ApplyOptions(c.options, NewRoute(c.method, ParseURL(c.uri), c.response))

(***************************************************************************)
(* Matching.  A request is [Method, Path, RawQuery, Host, Header]; Header  *)
(* is an http.Header: canonical name -> the sequence of values received.   *)
(***************************************************************************)
\* http.Header.Get(key): the first value under the canonical key, or ""
HeaderValue(requestHeader, k) ==
    IF k \in DOMAIN requestHeader /\ requestHeader[k] # <<>>
    THEN requestHeader[k][1] ELSE <<>>

HeaderGet(requestHeader, key) == HeaderValue(requestHeader, CanonicalKey(key))

headersMatch(routeHeaders, requestHeader) ==
    \A key \in DOMAIN routeHeaders :
        routeHeaders[key] = HeaderGet(requestHeader, key)

routeMatchNoQuery(route, r) ==
    /\ route.path = r.Path
    /\ route.method = r.Method
    /\ headersMatch(route.requestHeaders, r.Header)

routeMatchHost(route, r) ==
    /\ route.path = r.Path
    /\ route.method = r.Method
    /\ route.query = r.RawQuery
    /\ route.domain \in {<<>>, r.Host}
    /\ headersMatch(route.requestHeaders, r.Header)

routeMatch(route, r) ==
    /\ route.path = r.Path
    /\ route.method = r.Method
    /\ route.query = r.RawQuery
    /\ headersMatch(route.requestHeaders, r.Header)

\* ServeHTTP lines 218-224: the index of routeFound after the loop, 0 for nil
RECURSIVE scanFirst(_, _, _, _)
scanFirst(rs, r, i, found) ==
    IF i > Len(rs) THEN found
    ELSE scanFirst(rs, r, i + 1, IF found = 0 /\ routeMatch(rs[i], r) THEN i ELSE found)

RECURSIVE scan(_, _, _, _)
scan(rs, r, i, found) ==
    IF i > Len(rs) THEN found
    ELSE scan(rs, r, i + 1, IF routeMatch(rs[i], r) THEN i ELSE found)

routeFoundFirst(rs, r) == scanFirst(rs, r, 1, 0)

routeFound(rs, r) == scan(rs, r, 1, 0)

(***************************************************************************)
(* Rendering.  The writer is the sequence of calls made on it.             *)
(***************************************************************************)
WSet(k, v) == [op |-> "Set", key |-> k, val |-> v, code |-> 0, data |-> <<>>]
WWriteHeader(c) == [op |-> "WriteHeader", key |-> <<>>, val |-> <<>>, code |-> c, data |-> <<>>]
WWrite(d) == [op |-> "Write", key |-> <<>>, val |-> <<>>, code |-> 0, data |-> d]

\* The orders in which a range over a map may visit its keys
Orderings(S) ==
    {o \in [1..Cardinality(S) -> S] : \A i, j \in DOMAIN o : i # j => o[i] # o[j]}

statusCodeOfRaw(rt) == rt.statusCode

\* ServeHTTP lines 235-238
statusCodeOf(rt) == IF rt.statusCode = 0 THEN StatusOK ELSE rt.statusCode

\* ServeHTTP lines 231-242 for the route found; order is the map iteration order
render(rt, order) ==
    [i \in 1..Len(order) |-> WSet(order[i], rt.responseHeaders[order[i]])]
    \o <<WWriteHeader(statusCodeOf(rt))>>
    \o <<WWrite(rt.body)>>

serveFoundPage(rs, f, order) ==
    IF f = 0
    THEN <<WWriteHeader(StatusNotFound), WWrite(<<"n","o","t"," ","f","o","u","n","d">>)>>
    ELSE render(rs[f], order)

\* ServeHTTP on the route sequence rs
serveFound(rs, f, order) ==
    IF f = 0 THEN <<WWriteHeader(StatusNotFound)>> ELSE render(rs[f], order)

ServeHTTP(rs, r, order) == serveFound(rs, routeFound(rs, r), order)

\* What the client receives from the calls in wr (net/http's ResponseWriter):
\* the first status written, the headers set before it, the bytes written.
FirstStatusAt(wr) ==
    IF \E i \in DOMAIN wr : wr[i].op # "Set"
    THEN CHOOSE i \in DOMAIN wr : wr[i].op # "Set" /\ \A j \in 1..(i - 1) : wr[j].op = "Set"
    ELSE 0

RECURSIVE HeadersSet(_, _)
HeadersSet(wr, n) ==
    IF n = 0 THEN EmptyMap ELSE MapSet(HeadersSet(wr, n - 1), wr[n].key, wr[n].val)

RECURSIVE BodyOf(_)
BodyOf(wr) ==
    IF wr = <<>> THEN <<>>
    ELSE (IF Head(wr).op = "Write" THEN Head(wr).data ELSE <<>>) \o BodyOf(Tail(wr))

ResponseAt(wr, s) ==
    [status  |-> IF s = 0 THEN 0
                 ELSE IF wr[s].op = "WriteHeader" THEN wr[s].code ELSE StatusOK,
     headers |-> HeadersSet(wr, IF s = 0 THEN Len(wr) ELSE s - 1),
     body    |-> BodyOf(wr)]

Response(wr) == ResponseAt(wr, FirstStatusAt(wr))

(***************************************************************************)
(* The strings the inputs are made of.                                     *)
(***************************************************************************)
GET == <<"G","E","T">>
get == <<"g","e","t">>
PathP == <<"/","p">>
PathQ == <<"/","q">>
QueryAB == <<"a","&","b">>
QueryBA == <<"b","&","a">>
QueryA == <<"a">>
NameX == <<"X">>
NameY == <<"Y">>
NameK == <<"K">>
ValA == <<"a">>
ValB == <<"b">>
ValV == <<"v">>
HostH == <<"h">>
HostM == <<"m">>

Map1(k, v) == MapSet(EmptyMap, k, v)

(***************************************************************************)
(* The cassette loader.  The disk is a fixed directory tree; a document is *)
(* the sequence of cassetteRoute values yaml decodes from it.              *)
(***************************************************************************)
Entry(method, path, headers, status, rheaders, body) ==
    [Request  |-> [Method |-> method, Path |-> path, Headers |-> headers],
     Response |-> [Status |-> status, Headers |-> rheaders, Body |-> body]]

EntryLowerHdr == Entry(get, PathP, Map1(NameX, ValA), 0, EmptyMap, <<"c","1">>)
EntryQuery    == Entry(GET, PathP \o <<"?">> \o QueryAB, EmptyMap, 201,
                       Map1(NameK, ValV), <<"c","2">>)
EntryFirst    == Entry(GET, PathP, EmptyMap, 500, EmptyMap, <<"c","3">>)
EntrySecond   == Entry(GET, PathP, EmptyMap, 0, EmptyMap, <<"c","4">>)
EntryBadPath  == Entry(GET, <<":">>, EmptyMap, 0, EmptyMap, <<>>)

Node(kind, readable, wellformed, doc, names) ==
    [kind |-> kind, readable |-> readable, wellformed |-> wellformed,
     doc |-> doc, names |-> names]
RegularFile(doc) == Node("file", TRUE, TRUE, doc, <<>>)
Directory(names) == Node("dir", TRUE, TRUE, <<>>, names)
Missing == Node("missing", FALSE, FALSE, <<>>, <<>>)

\* path.Join(dirPath, name)
Join(dirPath, name) == dirPath \o "/" \o name

Disk ==
    [p \in {"one.yml", "dir", "dir/a.yml", "dir/b.yml", "mixed", "mixed/a.yml",
            "mixed/bad.yml", "bad.yml", "badpath.yml", "locked.yml", "denied",
            "pipe", "nope"} |->
        CASE p = "one.yml"       -> RegularFile(<<EntryLowerHdr, EntryQuery>>)
          [] p = "dir"           -> Directory(<<"a.yml", "b.yml">>)
          [] p = "dir/a.yml"     -> RegularFile(<<EntryFirst>>)
          [] p = "dir/b.yml"     -> RegularFile(<<EntrySecond>>)
          [] p = "mixed"         -> Directory(<<"a.yml", "bad.yml">>)
          [] p = "mixed/a.yml"   -> RegularFile(<<EntryFirst>>)
          [] p = "mixed/bad.yml" -> Node("file", TRUE, FALSE, <<>>, <<>>)
          [] p = "bad.yml"       -> Node("file", TRUE, FALSE, <<>>, <<>>)
          [] p = "badpath.yml"   -> RegularFile(<<EntrySecond, EntryBadPath>>)
          [] p = "locked.yml"    -> Node("file", FALSE, TRUE, <<>>, <<>>)
          [] p = "denied"        -> Node("staterr", FALSE, FALSE, <<>>, <<>>)
          [] p = "pipe"          -> Node("other", TRUE, TRUE, <<>>, <<>>)
          [] OTHER               -> Missing]

Stat(p) == IF p \in DOMAIN Disk THEN Disk[p] ELSE Missing

Fatal == [fatal |-> TRUE, routes |-> <<>>]
Loaded(rs) == [fatal |-> FALSE, routes |-> rs]

\* loadCassette lines 199-206: the route of one entry
cassetteRouteKeepCase(c, u) ==
    [domain |-> <<>>, method |-> c.Request.Method, path |-> u.Path,
     query |-> u.RawQuery, requestHeaders |-> EmptyMap,
     statusCode |-> c.Response.Status, body |-> c.Response.Body,
     responseHeaders |-> c.Response.Headers]

cassetteRoute(c, u) ==
    [domain |-> <<>>, method |-> ToUpper(c.Request.Method), path |-> u.Path,
     query |-> u.RawQuery, requestHeaders |-> EmptyMap,
     statusCode |-> c.Response.Status, body |-> c.Response.Body,
     responseHeaders |-> c.Response.Headers]

\* loadCassette lines 193-209: the loop over the entries
RECURSIVE cassetteRoutesOf(_, _)
cassetteEntry(cassettes, acc, u) ==
    IF u.err THEN Fatal
    ELSE cassetteRoutesOf(Tail(cassettes), Append(acc, cassetteRoute(Head(cassettes), u)))

cassetteRoutesOf(cassettes, acc) ==
    IF cassettes = <<>> THEN Loaded(acc)
    ELSE cassetteEntry(cassettes, acc, ParseURL(Head(cassettes).Request.Path))

\* loadCassette lines 180-189: os.Open, then Decode
decodeCassette(f) ==
    IF f.kind = "missing" \/ ~f.readable THEN Fatal      \* os.Open fails
    ELSE IF f.kind # "file" \/ ~f.wellformed THEN Fatal  \* Decode fails
    ELSE cassetteRoutesOf(f.doc, <<>>)

\* loadCassette(filePath): [fatal, routes]
loadCassette(filePath) == decodeCassette(Stat(filePath))

\* loadCassettes(dirPath): the files in ReadDir's order; the first fatal ends it
RECURSIVE loadFiles(_, _, _)
loadFileReverse(dirPath, names, acc, r) ==
    IF r.fatal THEN Fatal ELSE loadFiles(dirPath, Tail(names), r.routes \o acc)

loadFile(dirPath, names, acc, r) ==
    IF r.fatal THEN Fatal ELSE loadFiles(dirPath, Tail(names), acc \o r.routes)

loadFiles(dirPath, names, acc) ==
    IF names = <<>> THEN Loaded(acc)
    ELSE loadFile(dirPath, names, acc, loadCassette(Join(dirPath, Head(names))))

readDir(dirPath, d) ==
    IF ~d.readable THEN Fatal ELSE loadFiles(dirPath, d.names, <<>>)

loadCassettes(dirPath) == readDir(dirPath, Stat(dirPath))

\* LoadCassette lines 140-158: [fatal, routes], routes being what line 160 appends
loadByMode(path, st) ==
    IF st.kind \in {"missing", "staterr"} THEN Fatal
    ELSE IF st.kind = "dir" THEN loadCassettes(path)
    ELSE IF st.kind = "file" THEN loadCassette(path)
    ELSE Loaded(<<>>)

cassetteLoad(path) == loadByMode(path, Stat(path))

(***************************************************************************)
(* The inputs of the sequential specification.                             *)
(***************************************************************************)
Call(method, uri, response, options) ==
    [method |-> method, uri |-> uri, response |-> response, options |-> options]

HdrXA == <<"X",":"," ","a">>          \* "X: a"
HdrLowerXEmpty == <<"x",":">>         \* "x:"
HdrNoColon == <<"X">>                 \* "X"

StubCalls ==
    { Call(GET, PathP, <<"o","k">>, <<>>),
      Call(get, PathP, <<"l","o">>, <<>>),
      Call(GET, PathP \o <<"?">> \o QueryAB, <<"q">>, <<>>),
      Call(GET, <<"h","t","t","p",":","/","/">> \o HostH \o PathP, <<"h">>, <<>>),
      Call(GET, PathP, <<"x","a">>, <<OptHeaders(HdrXA)>>),
      Call(GET, PathP, <<"x","e">>, <<OptHeaders(HdrLowerXEmpty)>>),
      Call(GET, PathP, <<>>, <<OptResponse(500, <<"e","r","r">>, Map1(NameK, ValV))>>),
      Call(GET, PathP, <<"u">>, <<OptResponse(299, <<>>, EmptyMap)>>),
      Call(GET, <<":">>, <<"b">>, <<>>),
      Call(GET, PathP, <<"b">>, <<OptHeaders(HdrNoColon)>>) }

CassettePaths == DOMAIN Disk \ {"dir/a.yml", "dir/b.yml", "mixed/a.yml", "mixed/bad.yml"}

Request(method, path, query, host, header) ==
    [Method |-> method, Path |-> path, RawQuery |-> query, Host |-> host,
     Header |-> header]

Requests ==
    { Request(GET, PathP, <<>>, HostM, EmptyMap),
      Request(GET, PathP, <<>>, HostH, EmptyMap),
      Request(GET, PathP, <<>>, HostM, Map1(NameX, <<ValA>>)),
      Request(GET, PathP, <<>>, HostM, Map1(NameX, <<ValB>>)),
      Request(GET, PathP, <<>>, HostM, MapSet(Map1(NameX, <<ValA>>), NameY, <<ValB>>)),
      Request(GET, PathP, <<>>, HostM, Map1(NameX, <<ValB, ValA>>)),
      Request(GET, PathP, <<>>, HostM, Map1(NameX, << <<>> >>)),
      Request(GET, PathP, QueryAB, HostM, EmptyMap),
      Request(GET, PathP, QueryA, HostM, EmptyMap),
      Request(GET, PathP, QueryBA, HostM, EmptyMap),
      Request(get, PathP, <<>>, HostM, EmptyMap),
      Request(GET, PathQ, <<>>, HostM, EmptyMap) }

NoReq == Request(<<>>, <<>>, <<>>, <<>>, EmptyMap)

(***************************************************************************)
(* The sequential specification: one test thread registers, resets and     *)
(* issues requests, each handled to completion before the next call.       *)
(***************************************************************************)
Words == {"ptr", "len", "cap"}

\* make([]*route, 0): the address of the zero-size allocation, no length
EmptySlice == [ptr |-> 0, len |-> 0, cap |-> 0]

Mutators == {"t1", "t2"}

MutIdle ==
    [pc |-> "idle", add |-> <<>>, rd |-> EmptySlice, rdPending |-> {},
     new |-> EmptySlice, wrPending |-> {}, before |-> <<>>]

HndIdle ==
    [pc |-> "idle", rd |-> EmptySlice, rdPending |-> {}, i |-> 0, found |-> 0,
     seen |-> <<>>]

RaceIdle ==
    /\ hdr = EmptySlice
    /\ heap = <<>>
    /\ mut = [t \in Mutators |-> MutIdle]
    /\ hnd = HndIdle
    /\ held = {}
    /\ ops = 0

OptIdle ==
    /\ oroute = <<>>
    /\ oargs = <<>>
    /\ oidx = 0
    /\ opc = "idle"

\* New(): routes: make([]*route, 0)
Init ==
    /\ routes = <<>>
    /\ proc = "running"
    /\ req = NoReq
    /\ w = <<>>
    /\ calls = <<>>
    /\ didReset = FALSE
    /\ RaceIdle
    /\ OptIdle

\* The process ends, and the client's exchange with it
Exit(how) ==
    /\ proc' = how
    /\ req' = NoReq
    /\ w' = <<>>
    /\ UNCHANGED <<routes, calls, didReset>>

Registered(call, rs) ==
    /\ routes' = rs
    /\ calls' = Append(calls, call)
    /\ req' = NoReq
    /\ w' = <<>>
    /\ UNCHANGED <<proc, didReset>>

resetRoutesKeepFirst(rs) == IF rs = <<>> THEN rs ELSE <<rs[1]>>

\* Reset line 105
resetRoutes(rs) == <<>>

appendRoutesFront(rs, new) == new \o rs

\* Stub line 133, LoadCassette line 160
appendRoutes(rs, new) == rs \o new

Stub(c) ==
    /\ proc = "running"
    /\ Len(calls) < MaxRoutes
    /\ Len(routes) < MaxRoutes
    /\ IF \E i \in DOMAIN c.options : OptionPanics(c.options[i])
       THEN Exit("panicked")
       ELSE IF ParseURL(c.uri).err
       THEN Exit("fatal")
       ELSE Registered([op |-> "Stub", arg |-> c],
                       appendRoutes(routes, <<StubRoute(c)>>))
    /\ UNCHANGED <<raceVars, optVars>>

LoadCassetteDone(path, r) ==
    IF r.fatal
    THEN Exit("fatal")
    ELSE /\ Len(routes) + Len(r.routes) <= MaxRoutes
         /\ Registered([op |-> "LoadCassette", arg |-> path],
                       appendRoutes(routes, r.routes))

LoadCassette(path) ==
    /\ proc = "running"
    /\ Len(calls) < MaxRoutes
    /\ LoadCassetteDone(path, cassetteLoad(path))
    /\ UNCHANGED <<raceVars, optVars>>

Reset ==
    /\ proc = "running"
    /\ routes' = resetRoutes(routes)
    /\ calls' = <<>>
    /\ didReset' = TRUE
    /\ req' = NoReq
    /\ w' = <<>>
    /\ UNCHANGED <<proc, raceVars, optVars>>

\* The keys the range of line 231 visits
headerKeys(rs, f) == IF f = 0 THEN {} ELSE DOMAIN rs[f].responseHeaders

Serve(q) ==
    /\ proc = "running"
    /\ \E order \in Orderings(headerKeys(routes, routeFound(routes, q))) :
           w' = ServeHTTP(routes, q, order)
    /\ req' = q
    /\ UNCHANGED <<routes, proc, calls, didReset, raceVars, optVars>>

Next ==
    \/ \E c \in StubCalls : Stub(c)
    \/ \E path \in CassettePaths : LoadCassette(path)
    \/ Reset
    \/ \E q \in Requests : Serve(q)

Spec == Init /\ [][Next]_vars

(***************************************************************************)
(* What the claims speak of.                                               *)
(***************************************************************************)
\* A request has been served against the registry as it is now
Served == req # NoReq

NotFoundResponse == [status |-> StatusNotFound, headers |-> EmptyMap, body |-> <<>>]

\* The response the spec prescribes for a selected route
Rendering(rt) ==
    [status  |-> IF rt.statusCode = 0 THEN 200 ELSE rt.statusCode,
     headers |-> rt.responseHeaders,
     body    |-> rt.body]

\* The indices of the registered routes the code's predicate accepts
Matching(rs, r) == {i \in DOMAIN rs : routeMatch(rs[i], r)}

Last(S) == CHOOSE i \in S : \A j \in S : j <= i

\* C1: whenever one or more registered routes match the served request, the
\* response is the rendering of the matching route registered last: its
\* status, its body and exactly its response headers.
C1_LastMatchWins ==
    (Served /\ Matching(routes, req) # {})
        => Response(w) = Rendering(routes[Last(Matching(routes, req))])

\* C1 witness: two matching routes, the earlier with response headers and
\* another body, and the request served.
C1_Witness ==
    /\ Served
    /\ \E i, j \in Matching(routes, req) :
          /\ i < j
          /\ routes[i].responseHeaders # EmptyMap
          /\ routes[j].responseHeaders = EmptyMap
          /\ routes[i].body # routes[j].body

\* The handler selected a route: it wrote more than the bare 404
Selected == w # <<WWriteHeader(StatusNotFound)>>

\* The request carries the header `name` with exactly `value` (the name
\* compared case-insensitively, the value being the one http.Header.Get reports)
Carries(header, name, value) ==
    \E k \in DOMAIN header :
        /\ CanonicalKey(k) = CanonicalKey(name)
        /\ header[k] # <<>>
        /\ header[k][1] = value

\* The four predicates of the matching contract
FourPredicates(rt, r) ==
    /\ rt.path = r.Path
    /\ rt.method = r.Method
    /\ rt.query = r.RawQuery
    /\ \A name \in DOMAIN rt.requestHeaders :
           Carries(r.Header, name, rt.requestHeaders[name])

\* C2: the handler selects some route if and only if at least one registered
\* route satisfies all four predicates (path, method, raw query equal, every
\* required header present with exactly the required value); otherwise the
\* outcome is not-found.
C2_MatchExistence ==
    Served => (Selected <=> \E i \in DOMAIN routes : FourPredicates(routes[i], req))

\* The registry that the registrations in cs build on an empty registry
RECURSIVE Replay(_)
Replay(cs) ==
    IF cs = <<>> THEN <<>>
    ELSE LET c == cs[Len(cs)]
             before == Replay(SubSeq(cs, 1, Len(cs) - 1))
         IN  IF c.op = "Stub" THEN Append(before, StubRoute(c.arg))
             ELSE before \o cassetteLoad(c.arg).routes

\* The response the spec prescribes for request r on registry rs
Prescribed(rs, r) ==
    IF Matching(rs, r) = {} THEN NotFoundResponse
    ELSE Rendering(rs[Last(Matching(rs, r))])

\* C5: after Reset every request yields not-found until a route is registered,
\* and the responses depend only on the registrations made since the Reset:
\* registering the same routes in the same order gives the same responses.
C5_ResetSemantics ==
    Served =>
        /\ calls = <<>> => Response(w) = NotFoundResponse
        /\ Response(w) = Prescribed(Replay(calls), req)

\* C5 witness: after a Reset a route was registered again and a request
\* that matches it was served.
C5_Witness ==
    /\ didReset
    /\ calls # <<>>
    /\ Served
    /\ Selected

\* C6: a route matches a request only if the request carries every header
\* the route requires, under that name and with exactly that value; a request
\* without a required header name is never matched, whatever the value.
C6_RequiredHeaders ==
    Served =>
        \A i \in Matching(routes, req) :
            \A name \in DOMAIN routes[i].requestHeaders :
                Carries(req.Header, name, routes[i].requestHeaders[name])

\* The entries of the documents LoadCassette(path) reads, in load order
RECURSIVE EntriesOfFiles(_, _)
EntriesOfFiles(dirPath, names) ==
    IF names = <<>> THEN <<>>
    ELSE Disk[Join(dirPath, Head(names))].doc \o EntriesOfFiles(dirPath, Tail(names))

EntriesOf(path) ==
    IF Disk[path].kind = "dir" THEN EntriesOfFiles(path, Disk[path].names)
    ELSE Disk[path].doc

\* For each registered route, the request headers its cassette entry lists
\* (none for a route registered by Stub)
RECURSIVE ListedHeaders(_)
ListedHeaders(cs) ==
    IF cs = <<>> THEN <<>>
    ELSE LET c == cs[Len(cs)]
             before == ListedHeaders(SubSeq(cs, 1, Len(cs) - 1))
         IN  IF c.op = "Stub" THEN Append(before, EmptyMap)
             ELSE before \o [i \in 1..Len(EntriesOf(c.arg)) |->
                                EntriesOf(c.arg)[i].Request.Headers]

\* C8: a route loaded from a cassette entry that lists request headers
\* matches a request only if the request carries each of them with exactly
\* the listed value.
C8_CassetteHeadersEnforced ==
    Served =>
        \A i \in Matching(routes, req) :
            \A name \in DOMAIN ListedHeaders(calls)[i] :
                Carries(req.Header, name, ListedHeaders(calls)[i][name])

\* C9: a request is answered by a route only if the route's query equals the
\* request's raw query character for character; with no such route the
\* outcome is not-found (no fallback that ignores the query).
C9_QueryExactness ==
    (Served /\ Selected) =>
        \E i \in DOMAIN routes :
            /\ routes[i].query = req.RawQuery
            /\ Rendering(routes[i]) = Response(w)

\* C9 witness: routes with query "a&b" and with no query are registered for
\* the path and method of a request with raw query "a", which got not-found.
C9_Witness ==
    /\ Served
    /\ req.RawQuery = QueryA
    /\ \E i, j \in DOMAIN routes :
          /\ routes[i].query = QueryAB /\ routes[j].query = <<>>
          /\ routes[i].path = req.Path /\ routes[j].path = req.Path
          /\ routes[i].method = req.Method /\ routes[j].method = req.Method
          /\ routes[j].requestHeaders = EmptyMap
    /\ Response(w) = NotFoundResponse

(***************************************************************************)
(* The option specification: one Stub call, its options drawn from a pool   *)
(* and applied one at a time, then registered and requested.               *)
(***************************************************************************)
HdrYB == <<"Y",":","b">>              \* "Y:b"
BodyOK == <<"o","k">>
BodyErr == <<"e","r","r">>
BodyNew == <<"n","b">>

OptionPool ==
    { OptHeaders(HdrXA),
      OptHeaders(HdrYB),
      OptHeaders(HdrNoColon),
      OptResponse(500, BodyErr, Map1(NameK, ValV)),
      OptResponse(0, <<>>, EmptyMap),
      OptResponse(299, <<>>, EmptyMap),
      OptResponse(201, <<>>, EmptyMap),
      OptResponse(0, BodyNew, EmptyMap),
      OptResponse(0, <<>>, Map1(NameK, ValA)) }

OptionSeqs == UNION {[1..n -> OptionPool] : n \in 0..MaxOpts}

OptRequests ==
    { Request(GET, PathP, <<>>, HostM, EmptyMap),
      Request(GET, PathP, <<>>, HostM,
              MapSet(Map1(NameX, <<ValA>>), NameY, <<ValB>>)) }

InitOpt ==
    /\ routes = <<>>
    /\ proc = "running"
    /\ req = NoReq
    /\ w = <<>>
    /\ calls = <<>>
    /\ didReset = FALSE
    /\ RaceIdle
    /\ oargs \in {Call(GET, PathP, BodyOK, o) : o \in OptionSeqs}
    /\ oroute = <<>>
    /\ oidx = 0
    /\ opc = "call"

\* The arguments of the call are evaluated: building an option may panic
OptPanic ==
    /\ opc = "call"
    /\ \E i \in DOMAIN oargs.options : OptionPanics(oargs.options[i])
    /\ proc' = "panicked"
    /\ opc' = "exited"
    /\ UNCHANGED <<routes, req, w, calls, didReset, raceVars, oroute, oargs, oidx>>

\* Stub lines 116-127
OptEnter ==
    /\ opc = "call"
    /\ \A i \in DOMAIN oargs.options : ~OptionPanics(oargs.options[i])
    /\ oroute' = NewRoute(oargs.method, ParseURL(oargs.uri), oargs.response)
    /\ opc' = "options"
    /\ UNCHANGED <<seqVars, raceVars, oargs, oidx>>

\* Stub lines 129-131, one iteration
OptApply ==
    /\ opc = "options"
    /\ oidx < Len(oargs.options)
    /\ oroute' = ApplyOption(oargs.options[oidx + 1], oroute)
    /\ oidx' = oidx + 1
    /\ UNCHANGED <<seqVars, raceVars, oargs, opc>>

\* Stub line 133
OptRegister ==
    /\ opc = "options"
    /\ oidx = Len(oargs.options)
    /\ routes' = appendRoutes(routes, <<oroute>>)
    /\ opc' = "registered"
    /\ UNCHANGED <<proc, req, w, calls, didReset, raceVars, oroute, oargs, oidx>>

OptServe(q) ==
    /\ opc = "registered"
    /\ Serve(q)

NextOpt ==
    \/ OptPanic
    \/ OptEnter
    \/ OptApply
    \/ OptRegister
    \/ \E q \in OptRequests : OptServe(q)

SpecOpt == InitOpt /\ [][NextOpt]_vars

\* The options applied so far that specify a field, by the code's test
AppliedOpts == SubSeq(oargs.options, 1, oidx)

SetsHeaders(o) == o.kind = "WithHeaders"
SetsStatus(o) == o.kind = "WithResponse" /\ o.code \in KnownStatus
SetsStatusNonzero(o) == o.kind = "WithResponse" /\ o.code # 0
SetsBody(o) == o.kind = "WithResponse" /\ o.response # <<>>
SetsRespHeaders(o) == o.kind = "WithResponse" /\ o.headers # EmptyMap

\* The last position of os that satisfies P, 0 when none does
LastWhere(os, P(_)) ==
    IF \E i \in DOMAIN os : P(os[i])
    THEN CHOOSE i \in DOMAIN os : P(os[i]) /\ \A j \in (i + 1)..Len(os) : ~P(os[j])
    ELSE 0

ValueOr(os, i, field, initial) == IF i = 0 THEN initial ELSE os[i][field]

HeadersOr(os, i) ==
    IF i = 0 THEN EmptyMap ELSE WithHeadersMap(os[i].headerStr).headerMap

\* The route that the options os must leave, the status being set by the
\* last option for which StatusSet holds
ExpectedRoute(os, StatusSet(_)) ==
    [domain |-> <<>>, method |-> oargs.method, path |-> PathP, query |-> <<>>,
     requestHeaders  |-> HeadersOr(os, LastWhere(os, SetsHeaders)),
     statusCode      |-> ValueOr(os, LastWhere(os, StatusSet), "code", 0),
     body            |-> ValueOr(os, LastWhere(os, SetsBody), "response", oargs.response),
     responseHeaders |-> ValueOr(os, LastWhere(os, SetsRespHeaders), "headers", EmptyMap)]

\* C10 as stated: each field of the route ends with the value set by the last
\* option that specifies it, a zero status, an empty body and an empty header
\* map being the only parts that count as not specified.
C10_OptionOrdering_Original ==
    opc \in {"options", "registered"}
        => oroute = ExpectedRoute(AppliedOpts, SetsStatusNonzero)

\* C10 amended: the same, a status code without a registered status text
\* (zero included) being what counts as not specified.
C10_OptionOrdering ==
    opc \in {"options", "registered"}
        => oroute = ExpectedRoute(AppliedOpts, SetsStatus)

\* C10 witness: two options both specifying the body and the status have
\* been applied, after an option that sets the required headers.
C10_Witness ==
    /\ opc = "options"
    /\ oidx = 2
    /\ oargs.options[1] = OptResponse(500, BodyErr, Map1(NameK, ValV))
    /\ oargs.options[2] = OptResponse(0, BodyNew, EmptyMap)
    /\ oroute.body = BodyNew
    /\ oroute.statusCode = 500

\* The status the response must carry, the status being set by the last
\* option for which StatusSet holds
ExpectedStatus(os, StatusSet(_)) ==
    IF LastWhere(os, StatusSet) = 0 THEN 200 ELSE os[LastWhere(os, StatusSet)].code

\* C7 as stated: a matched route renders 200 when no status was specified and
\* exactly the code of WithResponse(code, ...) for every nonzero code.
C7_StatusDefaulting_Original ==
    (opc = "registered" /\ Served /\ Selected)
        => Response(w).status = ExpectedStatus(oargs.options, SetsStatusNonzero)

\* C7 amended: a matched route renders 200 when no status was specified and
\* exactly the code of WithResponse(code, ...) for every code that has a
\* registered status text; any other code, zero included, is not specified.
C7_StatusDefaulting ==
    (opc = "registered" /\ Served /\ Selected)
        => Response(w).status = ExpectedStatus(oargs.options, SetsStatus)

\* C7 witness: a route built with WithResponse(500, ...) and then with a
\* WithResponse without status answered a request.
C7_Witness ==
    /\ opc = "registered"
    /\ Served
    /\ Selected
    /\ Len(oargs.options) = 2
    /\ oargs.options[1].code = 500
    /\ oargs.options[2] = OptResponse(0, BodyNew, EmptyMap)
    /\ Response(w).status = 500

(***************************************************************************)
(* The concurrent specification.  MockServer.routes is a slice header of   *)
(* three words over a backing array; the code takes no lock, so the test   *)
(* threads' stores and the handler goroutine's loads of the header         *)
(* interleave word by word.                                                *)
(***************************************************************************)
\* A word of a backing array: a pointer to a route, nil, or whatever lies
\* beyond the allocation
NoRoute == NewRoute(<<>>, GoodURL(<<>>, <<>>, <<>>), <<>>)
Ptr(rt) == [kind |-> "route", route |-> rt]
Nil == [kind |-> "nil", route |-> NoRoute]
Garbage == [kind |-> "garbage", route |-> NoRoute]

Ptrs(rs) == [i \in 1..Len(rs) |-> Ptr(rs[i])]
Derefs(ps) == [i \in 1..Len(ps) |-> ps[i].route]

\* The array at address p; address 0 is the zero-size allocation
Arr(h, p) == IF p \in DOMAIN h THEN h[p] ELSE <<>>

\* The word at index i of the array at p; beyond the array, whatever is there
Elem(h, p, i) == IF i \in DOMAIN Arr(h, p) THEN Arr(h, p)[i] ELSE Garbage

\* The elements a slice header denotes
Content(h, sl) == [i \in 1..sl.len |-> Elem(h, sl.ptr, i)]

Registry == Content(heap, hdr)

RaceCalls ==
    { Call(GET, PathP, <<"o","k">>, <<>>),
      Call(GET, PathP, <<"x","a">>, <<OptHeaders(HdrXA)>>) }

RacePaths == {"dir", "bad.yml"}

RaceRequests == { Request(GET, PathP, <<>>, HostM, EmptyMap) }

InitRace ==
    /\ routes = <<>>
    /\ proc = "running"
    /\ req = NoReq
    /\ w = <<>>
    /\ calls = <<>>
    /\ didReset = FALSE
    /\ RaceIdle
    /\ OptIdle

Storing(t) == mut[t].pc = "store" /\ mut[t].wrPending # Words

HandlerActive == hnd.pc \in {"load", "loop"}

\* A test thread enters Stub / LoadCassette with the routes to append
BeginAppend(t, rs) ==
    /\ mut' = [mut EXCEPT ![t] = [MutIdle EXCEPT !.pc = "load", !.add = rs,
                                                 !.rdPending = Words]]
    /\ ops' = ops + 1
    /\ UNCHANGED <<hdr, heap, hnd, held, seqVars, optVars>>

RaceExit(how) ==
    /\ proc' = how
    /\ UNCHANGED <<routes, req, w, calls, didReset, raceVars, optVars>>

\* Stub lines 116-131
RStub(t, c) ==
    /\ proc = "running"
    /\ mut[t].pc = "idle"
    /\ ops < MaxOps
    /\ IF ParseURL(c.uri).err THEN RaceExit("fatal")
       ELSE BeginAppend(t, Ptrs(<<StubRoute(c)>>))

\* LoadCassette lines 140-158
RLoadCassette(t, path) ==
    /\ proc = "running"
    /\ mut[t].pc = "idle"
    /\ ops < MaxOps
    /\ IF cassetteLoad(path).fatal THEN RaceExit("fatal")
       ELSE BeginAppend(t, Ptrs(cassetteLoad(path).routes))

\* Reset line 105: the new slice is made, its store follows
RReset(t) ==
    /\ proc = "running"
    /\ mut[t].pc = "idle"
    /\ ops < MaxOps
    /\ mut' = [mut EXCEPT ![t] = [MutIdle EXCEPT !.pc = "store", !.new = EmptySlice,
                                                 !.wrPending = Words,
                                                 !.before = Registry]]
    /\ ops' = ops + 1
    /\ UNCHANGED <<hdr, heap, hnd, held, seqVars, optVars>>

\* Line 133 / 160: one word of s.routes is loaded as append's argument
MLoadWord(t, f) ==
    /\ proc = "running"
    /\ mut[t].pc = "load"
    /\ f \in mut[t].rdPending
    /\ mut' = [mut EXCEPT ![t].rd[f] = hdr[f],
                          ![t].rdPending = @ \ {f},
                          ![t].pc = IF mut[t].rdPending = {f} THEN "append" ELSE @]
    /\ UNCHANGED <<hdr, heap, hnd, held, ops, seqVars, optVars>>

\* runtime.growslice for the sizes the model reaches
GrowCap(old, needed) == IF needed > 2 * old THEN needed ELSE 2 * old

Padding(n) == [i \in 1..n |-> Nil]

\* append in place: the elements are written behind the slice's length
InPlace(arr, sl, add) ==
    [i \in DOMAIN arr |->
        IF i > sl.len /\ i <= sl.len + Len(add) THEN add[i - sl.len] ELSE arr[i]]

\* Line 133 / 160: append(s.routes, ...) on the header that was loaded
MAppend(t) ==
    /\ proc = "running"
    /\ mut[t].pc = "append"
    /\ LET sl == mut[t].rd
           add == mut[t].add
           need == sl.len + Len(add)
       IN  IF need <= sl.cap
           THEN IF need <= Len(Arr(heap, sl.ptr))
                THEN /\ heap' = IF add = <<>> THEN heap
                                ELSE [heap EXCEPT ![sl.ptr] = InPlace(@, sl, add)]
                     /\ mut' = [mut EXCEPT ![t].pc = "store",
                                           ![t].new = [sl EXCEPT !.len = need],
                                           ![t].wrPending = Words,
                                           ![t].before = Registry]
                     /\ UNCHANGED proc
                ELSE \* a torn header: the write lands outside the array
                     /\ proc' = "corrupt"
                     /\ UNCHANGED <<heap, mut>>
           ELSE /\ heap' = Append(heap, Content(heap, sl) \o add
                                        \o Padding(GrowCap(sl.cap, need) - need))
                /\ mut' = [mut EXCEPT ![t].pc = "store",
                                      ![t].new = [ptr |-> Len(heap) + 1, len |-> need,
                                                  cap |-> GrowCap(sl.cap, need)],
                                      ![t].wrPending = Words,
                                      ![t].before = Registry]
                /\ UNCHANGED proc
    /\ UNCHANGED <<hdr, hnd, held, ops, routes, req, w, calls, didReset, optVars>>

\* Line 105 / 133 / 160: one word of s.routes is stored
MStoreWord(t, f) ==
    /\ proc = "running"
    /\ mut[t].pc = "store"
    /\ f \in mut[t].wrPending
    /\ hdr' = [hdr EXCEPT ![f] = mut[t].new[f]]
    /\ mut' = [mut EXCEPT ![t].wrPending = @ \ {f},
                          ![t].pc = IF mut[t].wrPending = {f} THEN "idle" ELSE @]
    /\ held' = IF ~HandlerActive THEN held
               ELSE IF mut[t].wrPending = Words THEN held \cup {mut[t].before}
               ELSE IF mut[t].wrPending = {f} THEN held \cup {Content(heap, hdr')}
               ELSE held
    /\ UNCHANGED <<heap, hnd, ops, seqVars, optVars>>

\* A request arrives: ServeHTTP starts on its own goroutine
HArrive(q) ==
    /\ proc = "running"
    /\ hnd.pc = "idle"
    /\ req' = q
    /\ w' = <<>>
    /\ hnd' = [HndIdle EXCEPT !.pc = "load", !.rdPending = {"ptr", "len"}]
    /\ held' = IF \E t \in Mutators : Storing(t)
               THEN {mut[t].before : t \in {u \in Mutators : Storing(u)}}
               ELSE {Registry}
    /\ UNCHANGED <<routes, proc, calls, didReset, hdr, heap, mut, ops, optVars>>

\* Line 220: one word of s.routes is loaded as the range expression
HLoadWord(f) ==
    /\ proc = "running"
    /\ hnd.pc = "load"
    /\ f \in hnd.rdPending
    /\ hnd' = [hnd EXCEPT !.rd[f] = hdr[f],
                          !.rdPending = @ \ {f},
                          !.pc = IF hnd.rdPending = {f} THEN "loop" ELSE @]
    /\ UNCHANGED <<hdr, heap, mut, held, ops, seqVars, optVars>>

\* Lines 220-224, one iteration: a nil or wild pointer is dereferenced in routeMatch
HIter ==
    /\ proc = "running"
    /\ hnd.pc = "loop"
    /\ hnd.i < hnd.rd.len
    /\ LET e == Elem(heap, hnd.rd.ptr, hnd.i + 1)
       IN  IF e.kind # "route"
           THEN hnd' = [hnd EXCEPT !.pc = "crashed", !.seen = Append(@, e)]
           ELSE hnd' = [hnd EXCEPT !.i = @ + 1,
                                   !.seen = Append(@, e),
                                   !.found = IF routeMatch(e.route, req)
                                             THEN hnd.i + 1 ELSE @]
    /\ UNCHANGED <<hdr, heap, mut, held, ops, seqVars, optVars>>

\* Lines 226-242
HRender ==
    /\ proc = "running"
    /\ hnd.pc = "loop"
    /\ hnd.i = hnd.rd.len
    /\ \E order \in Orderings(headerKeys(Derefs(hnd.seen), hnd.found)) :
           w' = serveFound(Derefs(hnd.seen), hnd.found, order)
    /\ hnd' = [hnd EXCEPT !.pc = "done"]
    /\ UNCHANGED <<routes, proc, req, calls, didReset, hdr, heap, mut, held, ops, optVars>>

NextRace ==
    \/ \E t \in Mutators, c \in RaceCalls : RStub(t, c)
    \/ \E t \in Mutators, path \in RacePaths : RLoadCassette(t, path)
    \/ \E t \in Mutators : RReset(t)
    \/ \E t \in Mutators, f \in Words : MLoadWord(t, f)
    \/ \E t \in Mutators : MAppend(t)
    \/ \E t \in Mutators, f \in Words : MStoreWord(t, f)
    \/ \E q \in RaceRequests : HArrive(q)
    \/ \E f \in Words : HLoadWord(f)
    \/ HIter
    \/ HRender

SpecRace == InitRace /\ [][NextRace]_vars

\* C3: the sequence of routes a handler evaluates is the registry as it was
\* entirely before or entirely after each concurrent Stub, LoadCassette or
\* Reset: never a sequence the registry did not hold at a single instant.
C3_SnapshotAtomicity ==
    hnd.pc \in {"done", "crashed"} => (hnd.pc = "done" /\ hnd.seen \in held)

\* C4: no reachable state has the handler in the middle of reading the
\* route-sequence variable while a mutator is in the middle of writing it.
C4_GuardedAccess ==
    ~ /\ hnd.pc = "load"
      /\ hnd.rdPending # {"ptr", "len"}
      /\ \E t \in Mutators : Storing(t)

(***************************************************************************)
(* The header-option specification: WithHeaders applied to header strings  *)
(* written as lists of name:value pairs, and to strings that are no such   *)
(* list, in a Stub call that is then registered.                           *)
(***************************************************************************)
MaxPairs == 2

HdrNames == { <<"X">>, <<" ","Y">>, <<"K"," ">> }

HdrValues == { <<"a">>, <<" ","a">>, <<" ","a"," ","b"," ">>, <<"a",":","b">>, <<>> }

Pair(name, value) == [name |-> name, value |-> value]

PairLists ==
    UNION {[1..n -> {Pair(n1, v) : n1 \in HdrNames, v \in HdrValues}] : n \in 1..MaxPairs}

\* The header string that lists the pairs ps: "name:value;name:value"
RECURSIVE HeaderString(_)
HeaderString(ps) ==
    IF Len(ps) = 1 THEN ps[1].name \o <<":">> \o ps[1].value
    ELSE ps[1].name \o <<":">> \o ps[1].value \o <<";">> \o HeaderString(Tail(ps))

HeaderStrings == {HeaderString(ps) : ps \in PairLists} \cup {HdrNoColon, <<>>}

InitHdr ==
    /\ routes = <<>>
    /\ proc = "running"
    /\ req = NoReq
    /\ w = <<>>
    /\ calls = <<>>
    /\ didReset = FALSE
    /\ RaceIdle
    /\ oargs \in {Call(GET, PathP, BodyOK, <<OptHeaders(s)>>) : s \in HeaderStrings}
    /\ oroute = <<>>
    /\ oidx = 0
    /\ opc = "call"

NextHdr ==
    \/ OptPanic
    \/ OptEnter
    \/ OptApply
    \/ OptRegister

SpecHdr == InitHdr /\ [][NextHdr]_vars

\* No two pairs of ps have the same name once trimmed
DistinctNames(ps) ==
    \A i, j \in DOMAIN ps : i # j => TrimSpace(ps[i].name) # TrimSpace(ps[j].name)

\* The map the pairs ps denote: each trimmed name to its complete trimmed value
PairsMap(ps) ==
    [n \in {TrimSpace(ps[i].name) : i \in DOMAIN ps} |->
        TrimSpace(ps[CHOOSE i \in DOMAIN ps : TrimSpace(ps[i].name) = n].value)]

\* The option of the call has been applied to the route
HeadersApplied == opc \in {"options", "registered"} /\ oidx = 1

\* C11: for every header string that lists name:value pairs (no ':' or ';'
\* in a name, no ';' in a value), WithHeaders sets requestHeaders to the map
\* of each trimmed name to its complete trimmed value, and nothing else.
C11_WithHeadersParsing ==
    \A ps \in PairLists :
        (HeadersApplied /\ DistinctNames(ps)
         /\ oargs.options[1].headerStr = HeaderString(ps))
            => oroute.requestHeaders = PairsMap(ps)

\* The same for the lists whose values hold no ':'
ColonFree(ps) == \A i \in DOMAIN ps : Index(ps[i].value, ":") = 0

WithHeadersColonFree ==
    \A ps \in PairLists :
        (HeadersApplied /\ DistinctNames(ps) /\ ColonFree(ps)
         /\ oargs.options[1].headerStr = HeaderString(ps))
            => oroute.requestHeaders = PairsMap(ps)

(***************************************************************************)
(* Registration, the not-found outcome, and what the handler leaves alone, *)
(* in the sequential specification.                                        *)
(***************************************************************************)
\* C12: every Stub call that returns lengthens the route sequence by exactly
\* one, places the new route at the end and leaves the routes registered
\* before, and their order, unchanged; a route with the same method, path
\* and query as one already registered is kept beside it.
C12_AppendNoDedup ==
    [][\A c \in StubCalls :
          calls' = Append(calls, [op |-> "Stub", arg |-> c])
              => /\ Len(routes') = Len(routes) + 1
                 /\ SubSeq(routes', 1, Len(routes)) = routes
                 /\ routes'[Len(routes')].method = c.method
                 /\ routes'[Len(routes')] = StubRoute(c)]_vars

\* C12 witness: the same Stub call returned twice, after another one, and
\* the registry holds all three routes, the two equal ones at the end.
C12_Witness ==
    /\ Len(calls) = 3
    /\ \A i \in 1..3 : calls[i].op = "Stub"
    /\ calls[2] = calls[3]
    /\ calls[1] # calls[2]
    /\ routes = <<StubRoute(calls[1].arg), StubRoute(calls[2].arg), StubRoute(calls[3].arg)>>

\* C13: a request that no registered route matches gets status 404 with an
\* empty body and none of the routes' response headers; the process keeps
\* running and serving, and whichever request is served next is answered
\* according to the registry.
C13_NotFound ==
    /\ []((Served /\ Matching(routes, req) = {})
            => /\ Response(w) = [status |-> 404, headers |-> EmptyMap, body |-> <<>>]
               /\ proc = "running"
               /\ ENABLED (\E q \in Requests : Serve(q)))
    /\ [][(Served /\ Matching(routes, req) = {} /\ req' # NoReq)
            => Response(w') = Prescribed(routes', req')]_vars

\* C13 witness: a request was served that matches none of the registered
\* routes, one of which, on the request's path, carries response headers.
C13_Witness ==
    /\ Served
    /\ Matching(routes, req) = {}
    /\ \E i \in DOMAIN routes :
          /\ routes[i].responseHeaders # EmptyMap
          /\ routes[i].path = req.Path
    /\ Response(w).status = 404

(***************************************************************************)
(* The step specification.  The test thread runs LoadCassette a file at a  *)
(* time while the handler goroutine runs ServeHTTP a statement at a time;  *)
(* here s.routes is read and written as one value (its word-by-word        *)
(* accesses are the subject of SpecRace).                                  *)
(***************************************************************************)
StepCalls ==
    { Call(GET, PathP, <<"o","k">>, <<>>),
      Call(GET, PathP, <<>>, <<OptResponse(500, <<"e","r","r">>,
                                           MapSet(Map1(NameK, ValV), NameX, ValA))>>) }

StepRegistries ==
    {<<>>} \cup {<<[op |-> "Stub", arg |-> c]>> : c \in StepCalls}

StepRequests ==
    { Request(GET, PathP, <<>>, HostM, EmptyMap),
      Request(GET, PathQ, <<>>, HostM, EmptyMap) }

\* The test thread outside LoadCassette
LoaderIdle == [pc |-> "idle", path |-> "", files |-> <<>>, local |-> <<>>]

\* No exchange before this one
NoExchange == [req |-> NoReq, resp |-> <<>>, calls |-> <<>>]

\* The handler goroutine before its first request
StepHndIdle ==
    [pc |-> "idle", rs |-> <<>>, i |-> 0, found |-> 0, keys |-> {},
     calls |-> <<>>, prev |-> NoExchange]

InitStep ==
    /\ calls \in StepRegistries
    /\ routes = [i \in DOMAIN calls |-> StubRoute(calls[i].arg)]
    /\ proc = "running"
    /\ req = NoReq
    /\ w = <<>>
    /\ didReset = FALSE
    /\ hdr = EmptySlice
    /\ heap = <<>>
    /\ mut = LoaderIdle
    /\ hnd = StepHndIdle
    /\ held = {}
    /\ ops = 0
    /\ OptIdle

\* log.Fatal on the test thread: the process ends with what was loaded so far
\* in the call's local slice
LoadFatal ==
    /\ mut' = [mut EXCEPT !.pc = "fatal"]
    /\ proc' = "fatal"

\* LoadCassette lines 140-158: os.Stat and the switch on the mode
statBranch(path, st) ==
    IF st.kind \in {"missing", "staterr"}
    THEN /\ mut' = [LoaderIdle EXCEPT !.pc = "fatal", !.path = path]
         /\ proc' = "fatal"
    ELSE /\ mut' = [LoaderIdle EXCEPT
                       !.pc = IF st.kind = "dir" THEN "readdir"
                              ELSE IF st.kind = "file" THEN "files" ELSE "append",
                       !.path = path,
                       !.files = IF st.kind = "file" THEN <<path>> ELSE <<>>]
         /\ UNCHANGED proc

LoadStat(path) ==
    /\ proc = "running"
    /\ mut.pc = "idle"
    /\ ops < MaxOps
    /\ ops' = ops + 1
    /\ statBranch(path, Stat(path))
    /\ UNCHANGED <<routes, req, w, calls, didReset, hdr, heap, hnd, held, optVars>>

\* loadCassettes lines 165-168: ioutil.ReadDir
readDirBranch(d) ==
    IF ~d.readable THEN LoadFatal
    ELSE /\ mut' = [mut EXCEPT
                       !.pc = IF d.names = <<>> THEN "append" ELSE "files",
                       !.files = [i \in DOMAIN d.names |-> Join(mut.path, d.names[i])]]
         /\ UNCHANGED proc

LoadReadDir ==
    /\ proc = "running"
    /\ mut.pc = "readdir"
    /\ readDirBranch(Stat(mut.path))
    /\ UNCHANGED <<routes, req, w, calls, didReset, hdr, heap, hnd, held, ops, optVars>>

\* The routes of one file are published at once
fileBranchPublish(r) ==
    IF r.fatal THEN LoadFatal /\ UNCHANGED routes
    ELSE /\ routes' = appendRoutes(routes, r.routes)
         /\ mut' = [mut EXCEPT !.files = Tail(@),
                               !.pc = IF Tail(mut.files) = <<>> THEN "append" ELSE @]
         /\ UNCHANGED proc

\* loadCassettes lines 171-174 (LoadCassette lines 156-157 for a single
\* file): one file is loaded into the call's local slice
fileBranch(r) ==
    IF r.fatal THEN LoadFatal /\ UNCHANGED routes
    ELSE /\ mut' = [mut EXCEPT !.local = @ \o r.routes,
                               !.files = Tail(@),
                               !.pc = IF Tail(mut.files) = <<>> THEN "append" ELSE @]
         /\ UNCHANGED <<proc, routes>>

LoadFile ==
    /\ proc = "running"
    /\ mut.pc = "files"
    /\ fileBranch(loadCassette(Head(mut.files)))
    /\ UNCHANGED <<req, w, calls, didReset, hdr, heap, hnd, held, ops, optVars>>

\* LoadCassette line 160
LoadAppend ==
    /\ proc = "running"
    /\ mut.pc = "append"
    /\ Len(routes) + Len(mut.local) <= MaxRoutes
    /\ routes' = appendRoutes(routes, mut.local)
    /\ calls' = Append(calls, [op |-> "LoadCassette", arg |-> mut.path])
    /\ mut' = LoaderIdle
    /\ UNCHANGED <<proc, req, w, didReset, hdr, heap, hnd, held, ops, optVars>>

\* What a handler step leaves alone
HandlerFrame == UNCHANGED <<proc, calls, didReset, hdr, heap, mut, held, ops, optVars>>

\* A request arrives; line 220 evaluates the range expression s.routes once
StepArrive(q) ==
    /\ proc = "running"
    /\ hnd.pc \in {"idle", "done"}
    /\ req' = q
    /\ w' = <<>>
    /\ hnd' = [StepHndIdle EXCEPT
                  !.pc = "scan", !.rs = routes, !.calls = calls,
                  !.prev = IF hnd.pc = "done"
                           THEN [req |-> req, resp |-> w, calls |-> hnd.calls]
                           ELSE NoExchange]
    /\ UNCHANGED routes
    /\ HandlerFrame

\* Lines 220-224, one iteration
StepIter ==
    /\ proc = "running"
    /\ hnd.pc = "scan"
    /\ hnd.i < Len(hnd.rs)
    /\ hnd' = [hnd EXCEPT !.i = @ + 1,
                          !.found = IF routeMatch(hnd.rs[hnd.i + 1], req)
                                    THEN hnd.i + 1 ELSE @]
    /\ UNCHANGED <<routes, req, w>>
    /\ HandlerFrame

\* Lines 226-229
StepNotFound ==
    /\ proc = "running"
    /\ hnd.pc = "scan"
    /\ hnd.i = Len(hnd.rs)
    /\ hnd.found = 0
    /\ w' = Append(w, WWriteHeader(StatusNotFound))
    /\ hnd' = [hnd EXCEPT !.pc = "done"]
    /\ UNCHANGED <<routes, req>>
    /\ HandlerFrame

\* The status is written as soon as a route is found
StepFoundStatusFirst ==
    /\ proc = "running"
    /\ hnd.pc = "scan"
    /\ hnd.i = Len(hnd.rs)
    /\ hnd.found # 0
    /\ w' = Append(w, WWriteHeader(statusCodeOf(hnd.rs[hnd.found])))
    /\ hnd' = [hnd EXCEPT !.pc = "headers",
                          !.keys = DOMAIN hnd.rs[hnd.found].responseHeaders]
    /\ UNCHANGED <<routes, req>>
    /\ HandlerFrame

\* Lines 226 and 231: a route was found, the range over its response headers
\* begins
StepFound ==
    /\ proc = "running"
    /\ hnd.pc = "scan"
    /\ hnd.i = Len(hnd.rs)
    /\ hnd.found # 0
    /\ hnd' = [hnd EXCEPT !.pc = "headers",
                          !.keys = DOMAIN hnd.rs[hnd.found].responseHeaders]
    /\ UNCHANGED <<routes, req, w>>
    /\ HandlerFrame

\* Lines 231-233, one iteration, in the map's iteration order
StepSetHeader(k) ==
    /\ proc = "running"
    /\ hnd.pc = "headers"
    /\ k \in hnd.keys
    /\ w' = Append(w, WSet(k, hnd.rs[hnd.found].responseHeaders[k]))
    /\ hnd' = [hnd EXCEPT !.keys = @ \ {k}]
    /\ UNCHANGED <<routes, req>>
    /\ HandlerFrame

\* Lines 235-240
StepWriteHeader ==
    /\ proc = "running"
    /\ hnd.pc = "headers"
    /\ hnd.keys = {}
    /\ w' = Append(w, WWriteHeader(statusCodeOf(hnd.rs[hnd.found])))
    /\ hnd' = [hnd EXCEPT !.pc = "body"]
    /\ UNCHANGED <<routes, req>>
    /\ HandlerFrame

\* The route that answered is used up
StepWriteBodyOnce ==
    /\ proc = "running"
    /\ hnd.pc = "body"
    /\ w' = Append(w, WWrite(hnd.rs[hnd.found].body))
    /\ hnd' = [hnd EXCEPT !.pc = "done"]
    /\ routes' = IF hnd.found \in DOMAIN routes /\ routes[hnd.found] = hnd.rs[hnd.found]
                 THEN SubSeq(routes, 1, hnd.found - 1)
                      \o SubSeq(routes, hnd.found + 1, Len(routes))
                 ELSE routes
    /\ UNCHANGED req
    /\ HandlerFrame

\* Line 242
StepWriteBody ==
    /\ proc = "running"
    /\ hnd.pc = "body"
    /\ w' = Append(w, WWrite(hnd.rs[hnd.found].body))
    /\ hnd' = [hnd EXCEPT !.pc = "done"]
    /\ UNCHANGED <<routes, req>>
    /\ HandlerFrame

\* The steps of ServeHTTP after the request has arrived
HandlerStep ==
    \/ StepIter
    \/ StepNotFound
    \/ StepFound
    \/ \E k \in hnd.keys : StepSetHeader(k)
    \/ StepWriteHeader
    \/ StepWriteBody

NextStep ==
    \/ \E path \in CassettePaths : LoadStat(path)
    \/ LoadReadDir
    \/ LoadFile
    \/ LoadAppend
    \/ \E q \in StepRequests : StepArrive(q)
    \/ StepIter
    \/ StepNotFound
    \/ StepFound
    \/ \E k \in hnd.keys : StepSetHeader(k)
    \/ StepWriteHeader
    \/ StepWriteBody

SpecStep == InitStep /\ [][NextStep]_vars

\* The scheduler runs the handler goroutine as long as it has a step to take
SpecStepFair == SpecStep /\ WF_vars(HandlerStep)

\* The step-by-step handler writes what ServeHTTP as a whole writes
StepwiseAgrees ==
    hnd.pc = "done"
        => \E order \in Orderings(headerKeys(hnd.rs, routeFound(hnd.rs, req))) :
               w = ServeHTTP(hnd.rs, req, order)

\* C14: handling a request, whether it matches or not, leaves the route
\* sequence and every field of every route unchanged; the same request
\* repeated with no registration in between gets the same response.
C14_ReadOnlyMatching ==
    /\ [][hnd' # hnd => routes' = routes]_vars
    /\ []((hnd.pc = "done" /\ hnd.prev.req = req /\ hnd.prev.calls = calls)
             => Response(w) = Response(hnd.prev.resp))

\* C14 witness: the request that a route with response headers answered has
\* been answered a second time, with no registration since the first began.
C14_Witness ==
    /\ hnd.pc = "done"
    /\ hnd.prev.req = req
    /\ hnd.prev.calls = calls
    /\ Selected
    /\ Response(w).headers # EmptyMap
    /\ routes = hnd.rs

\* The bodies of the routes rs, in order
Bodies(rs) == [i \in DOMAIN rs |-> rs[i].body]

\* The bodies that the completed registrations cs contribute when each
\* LoadCassette contributes every entry of its documents
RECURSIVE WholeBodies(_)
WholeBodies(cs) ==
    IF cs = <<>> THEN <<>>
    ELSE IF Head(cs).op = "Stub"
    THEN <<StubRoute(Head(cs).arg).body>> \o WholeBodies(Tail(cs))
    ELSE [i \in DOMAIN EntriesOf(Head(cs).arg) |->
             EntriesOf(Head(cs).arg)[i].Response.Body] \o WholeBodies(Tail(cs))

\* The file at p cannot be loaded: missing, unreadable, or no cassette document
FileFails(p) ==
    Stat(p).kind # "file" \/ ~Stat(p).readable \/ ~Stat(p).wellformed

\* LoadCassette(path) fails on a missing path, an unreadable file or
\* directory, or a malformed document, alone or among those of a directory
LoadFails(path) ==
    \/ Stat(path).kind \in {"missing", "staterr"}
    \/ ~Stat(path).readable
    \/ Stat(path).kind = "file" /\ ~Stat(path).wellformed
    \/ Stat(path).kind = "dir"
       /\ \E i \in DOMAIN Stat(path).names : FileFails(Join(path, Stat(path).names[i]))

\* C15: a LoadCassette that fails stops the process and never returns, and
\* neither the registry nor the route sequence any request evaluates ever
\* holds a part of a load's entries: each load is in it whole or not at all;
\* once the process is stopped nothing is served.
C15_NoPartialLoads ==
    /\ [](Bodies(routes) = WholeBodies(calls))
    /\ [](hnd.pc # "idle"
            => \E k \in 0..Len(calls) :
                   Bodies(hnd.rs) = WholeBodies(SubSeq(calls, 1, k)))
    /\ [](\A i \in DOMAIN calls :
             calls[i].op = "LoadCassette" => ~LoadFails(calls[i].arg))
    /\ []((mut.pc \in {"files", "append"} /\ mut.files = <<>>) => ~LoadFails(mut.path))
    /\ [](mut.pc = "fatal" => proc = "fatal")
    /\ [][proc = "fatal" => UNCHANGED <<routes, w, hnd>>]_vars

\* C15 witness: LoadCassette of a directory has loaded the entries of its
\* first document and failed on the malformed second one, a request being
\* handled meanwhile; the registry holds what it held before the call.
C15_Witness ==
    /\ mut.pc = "fatal"
    /\ mut.path = "mixed"
    /\ Len(mut.local) = 1
    /\ hnd.pc \in {"scan", "headers", "body", "done"}
    /\ Len(routes) = 1
    /\ Len(calls) = 1

\* The calls on the writer come in the order: headers, one status, one body
Rank(c) == IF c.op = "Set" THEN 1 ELSE IF c.op = "WriteHeader" THEN 2 ELSE 3

WriteOrder(wr) ==
    /\ \A i, j \in DOMAIN wr : i < j => Rank(wr[i]) <= Rank(wr[j])
    /\ Cardinality({i \in DOMAIN wr : wr[i].op = "WriteHeader"}) <= 1
    /\ Cardinality({i \in DOMAIN wr : wr[i].op = "Write"}) <= 1

\* The complete response for route rt: each of its response headers set
\* once, then its status, then its body
WritesOf(wr, rt) ==
    /\ Len(wr) = MapLen(rt.responseHeaders) + 2
    /\ \A k \in DOMAIN rt.responseHeaders :
          \E i \in 1..MapLen(rt.responseHeaders) : wr[i] = WSet(k, rt.responseHeaders[k])
    /\ wr[Len(wr) - 1] = WWriteHeader(IF rt.statusCode = 0 THEN 200 ELSE rt.statusCode)
    /\ wr[Len(wr)] = WWrite(rt.body)

\* C17: the handler terminates for every request and writes the response
\* once: all response headers of the selected route are set, then the status
\* is written once, then the body verbatim; when no route matches only the
\* 404 status is written.  No status is written twice and no header is set
\* after the status.
C17_WriteProtocol ==
    /\ []WriteOrder(w)
    /\ [](hnd.pc = "done"
            => IF Matching(hnd.rs, req) = {}
               THEN w = <<WWriteHeader(404)>>
               ELSE WritesOf(w, hnd.rs[Last(Matching(hnd.rs, req))]))
    /\ (hnd.pc = "scan") ~> (hnd.pc = "done" \/ proc # "running")

\* C17 witness: the handler has finished a response with two headers, a
\* status other than the default and a body.
C17_Witness ==
    /\ hnd.pc = "done"
    /\ Len(w) = 4
    /\ w[3].op = "WriteHeader"
    /\ w[3].code = 500
    /\ w[4].data # <<>>

(***************************************************************************)
(* Where the registered routes come from, in the sequential specification. *)
(***************************************************************************)
\* For each registered route, the call or the cassette entry it was made from
RECURSIVE Origins(_)
Origins(cs) ==
    IF cs = <<>> THEN <<>>
    ELSE IF Head(cs).op = "Stub"
    THEN <<[op |-> "Stub", method |-> Head(cs).arg.method]>> \o Origins(Tail(cs))
    ELSE [i \in DOMAIN EntriesOf(Head(cs).arg) |->
             [op |-> "LoadCassette",
              method |-> EntriesOf(Head(cs).arg)[i].Request.Method]]
         \o Origins(Tail(cs))

\* The response a cassette entry describes
EntryRendering(e) ==
    [status  |-> IF e.Response.Status = 0 THEN 200 ELSE e.Response.Status,
     headers |-> e.Response.Headers,
     body    |-> e.Response.Body]

\* The entries of the load of E at the end of rs that the request matches
MatchingEntries(rs, E, r) ==
    {i \in DOMAIN E : routeMatch(rs[Len(rs) - Len(E) + i], r)}

\* C16: LoadCassette appends the routes of the loaded entries after all
\* routes already registered, in the entries' order within a document and
\* the documents of a directory in enumeration order; so a request that
\* entries of the latest load match is answered by the last of them, ahead
\* of any route registered before the load.
C16_CassetteOrder ==
    /\ [][\A path \in CassettePaths :
             calls' = Append(calls, [op |-> "LoadCassette", arg |-> path])
                 => /\ Len(routes') = Len(routes) + Len(EntriesOf(path))
                    /\ SubSeq(routes', 1, Len(routes)) = routes
                    /\ \A i \in DOMAIN EntriesOf(path) :
                          Rendering(routes'[Len(routes) + i])
                              = EntryRendering(EntriesOf(path)[i])]_vars
    /\ []((Served /\ calls # <<>> /\ calls[Len(calls)].op = "LoadCassette"
             /\ MatchingEntries(routes, EntriesOf(calls[Len(calls)].arg), req) # {})
            => Response(w) =
                 EntryRendering(EntriesOf(calls[Len(calls)].arg)
                     [Last(MatchingEntries(routes, EntriesOf(calls[Len(calls)].arg), req))]))

\* C16 witness: after a Stub for GET /p a directory of two documents was
\* loaded, each with an entry for GET /p; the request was answered from the
\* second document.
C16_Witness ==
    /\ Len(calls) = 2
    /\ calls[1] = [op |-> "Stub", arg |-> Call(GET, PathP, <<"o","k">>, <<>>)]
    /\ calls[2] = [op |-> "LoadCassette", arg |-> "dir"]
    /\ Served
    /\ Matching(routes, req) = {1, 2, 3}
    /\ Response(w) = EntryRendering(EntrySecond)

\* C18: the method predicate is exact, case-sensitive equality: a route from
\* Stub matches only requests with the very method string of the call; a
\* route from a cassette entry matches exactly the requests whose method is
\* the entry's method in upper case (path and query agreeing).
C18_MethodCase ==
    [](Served =>
          /\ Selected <=> Matching(routes, req) # {}
          /\ \A i \in DOMAIN routes :
                IF Origins(calls)[i].op = "Stub"
                THEN routeMatch(routes[i], req) => Origins(calls)[i].method = req.Method
                ELSE routeMatch(routes[i], req)
                        <=> /\ ToUpper(Origins(calls)[i].method) = req.Method
                            /\ routes[i].path = req.Path
                            /\ routes[i].query = req.RawQuery)

\* C18 witness: a cassette entry with method "get" and a Stub with method
\* "get" are registered for /p; a "GET" request for /p was answered by the
\* cassette entry, the Stub registered after it not matching.
C18_Witness ==
    /\ calls = <<[op |-> "LoadCassette", arg |-> "one.yml"],
                 [op |-> "Stub", arg |-> Call(get, PathP, <<"l","o">>, <<>>)]>>
    /\ Served
    /\ req.Method = GET
    /\ Matching(routes, req) = {1}
    /\ Response(w).body = EntryLowerHdr.Response.Body

\* The URI without its scheme and host
HostPrefix == <<"h","t","t","p",":","/","/">> \o HostH

WithoutHost(uri) == IF HasPrefix(uri, HostPrefix) THEN Drop(uri, Len(HostPrefix)) ELSE uri

\* The route of each Stub call of the model, had its URI come without scheme
\* and host
RouteWithoutHost == [c \in StubCalls |-> StubRoute([c EXCEPT !.uri = WithoutHost(@)])]

CassetteRoutes == [path \in CassettePaths |-> cassetteLoad(path).routes]

\* The registry that the registrations in cs build when every Stub is given
\* its URI without scheme and host
RECURSIVE ReplayWithoutHost(_)
ReplayWithoutHost(cs) ==
    IF cs = <<>> THEN <<>>
    ELSE IF Head(cs).op = "Stub"
    THEN <<RouteWithoutHost[Head(cs).arg]>> \o ReplayWithoutHost(Tail(cs))
    ELSE CassetteRoutes[Head(cs).arg] \o ReplayWithoutHost(Tail(cs))

\* C20: the host (and scheme) of the URI passed to Stub plays no part in
\* matching: every request gets the response it would get had each Stub
\* been given its URI without scheme and host, whatever the request's Host.
C20_HostIgnored ==
    [](Served =>
          \A h \in {HostH, HostM} :
              Response(w) = Prescribed(ReplayWithoutHost(calls), [req EXCEPT !.Host = h]))

\* C20 witness: a Stub for "http://h/p" answered a request for /p whose
\* Host is another one.
C20_Witness ==
    /\ calls # <<>>
    /\ calls[Len(calls)].op = "Stub"
    /\ HasPrefix(calls[Len(calls)].arg.uri, HostPrefix)
    /\ routes[Len(routes)].domain = HostH
    /\ Served
    /\ req.Host = HostM
    /\ Response(w).body = calls[Len(calls)].arg.response

(***************************************************************************)
(* Two registrations from two threads, in the concurrent specification.    *)
(***************************************************************************)
\* Both test threads have returned from one appending call each (Stub or
\* LoadCassette), these being the only calls made: no Reset in between
BothReturned ==
    /\ proc = "running"
    /\ ops = 2
    /\ \A t \in Mutators : mut[t].pc = "idle" /\ mut[t].add # <<>>

\* C19: when two Stub calls (or a Stub and a LoadCassette) made from
\* different threads have both returned, with no Reset in between, the
\* registry holds the routes of both calls.
C19_NoLostRegistration ==
    BothReturned =>
        /\ Len(Registry) = Len(mut["t1"].add) + Len(mut["t2"].add)
        /\ \A t \in Mutators :
              \A i \in DOMAIN mut[t].add :
                  \E j \in DOMAIN Registry : Registry[j] = mut[t].add[i]

====
